---- MODULE Spec2Model ----
(***************************************************************************)
(* A model of litex/workshop.py: the BaseSoC constructor, which edits the  *)
(* platform's toolchain command templates in place, and main(), which      *)
(* parses the command line, constructs the SoC and hands it to the         *)
(* builder.                                                                *)
(*                                                                         *)
(* A template entry is one command line.  The source holds it as a string  *)
(* and edits it with +=; here it is the sequence of its blank-separated    *)
(* tokens, so that concatenation of strings is concatenation of sequences. *)
(*                                                                         *)
(* The calls into litex, litex_boards, valentyusb and lxsocsupport are     *)
(* calls out of this file: each one either returns or raises, and an       *)
(* exception propagates out of main() because the file has no try block.   *)
(***************************************************************************)
EXTENDS Integers, Sequences, FiniteSets, TLC

VARIABLES
    mode,            \* "script": run as __main__ (line 107); "import": used as a module
    pc,              \* the position of the caller in lines 97..105
    argv,            \* the command line: [seed, placer, no_pll]
    args,            \* the namespace parse_args() returned
    yosys_template,  \* platform.toolchain.nextpnr_yosys_template
    build_template,  \* platform.toolchain.nextpnr_build_template
    constructions,   \* completed BaseSoC.__init__ calls on the platform
    soc,             \* the arguments of the latest BaseSoC.__init__ call
    invocations,     \* calls of builder.build(), which runs the toolchain
    reported         \* the error the process reported, "none" if none

vars == <<mode, pc, argv, args, yosys_template, build_template,
          constructions, soc, invocations, reported>>

-----------------------------------------------------------------------------
(* Bounds *)

\* How often client code constructs a BaseSoC on one platform.
MaxConstructions == 2

-----------------------------------------------------------------------------
(* Python values: None, an int, or a str. *)

None == [kind |-> "None", i |-> 0, s |-> ""]
PyInt(n) == [kind |-> "int", i |-> n, s |-> ""]
PyStr(t) == [kind |-> "str", i |-> 0, s |-> t]

Digit(d) ==
    CASE d = 0 -> "0" [] d = 1 -> "1" [] d = 2 -> "2" [] d = 3 -> "3"
      [] d = 4 -> "4" [] d = 5 -> "5" [] d = 6 -> "6" [] d = 7 -> "7"
      [] d = 8 -> "8" [] d = 9 -> "9"

RECURSIVE IntToStr(_)
IntToStr(n) ==
    IF n < 0 THEN "-" \o IntToStr(0 - n)
    ELSE IF n < 10 THEN Digit(n)
    ELSE IntToStr(n \div 10) \o Digit(n % 10)

\* str(v), and "{}".format(v), of a Python value.
Str(v) ==
    CASE v.kind = "int"  -> IntToStr(v.i)
      [] v.kind = "str"  -> v.s
      [] v.kind = "None" -> "None"

-----------------------------------------------------------------------------
(* The command line and the arguments a caller may pass. *)

\* "" stands for an option that is not on the command line.
Absent == ""

SeedWords == {"0", "1", "42"}
PlacerChoices == {"sa", "heap"}
PlacerWords == PlacerChoices \cup {"bogus"}

ArgvSet ==
    [seed : SeedWords \cup {Absent},
     placer : PlacerWords \cup {Absent},
     no_pll : BOOLEAN]

\* default=0 of --seed; also the default of the pnr_seed parameter
DefaultSeed == 0

\* values client code may pass as pnr_seed and as placer
SeedArgs == {PyInt(DefaultSeed), PyInt(10), PyStr("7")}
PlacerArgs == {None, PyStr("sa"), PyStr("heap"), PyStr("bogus")}

NoArgs == [seed |-> None, placer |-> None, no_pll |-> FALSE]
NoSoc == [placer |-> None, pnr_seed |-> None, use_pll |-> FALSE]

-----------------------------------------------------------------------------
(* The toolchain templates as the platform provides them. *)

DefaultYosysTemplate ==
    << <<"{read_files}">>,
       <<"attrmap", "-tocase", "keep">>,
       <<"synth_ice40", "-json", "{build_name}.json", "-top", "{build_name}">> >>

DefaultBuildTemplate ==
    << <<"yosys", "-q", "{build_name}.ys">>,
       <<"nextpnr-ice40", "--json", "{build_name}.json", "--pcf", "{build_name}.pcf">>,
       <<"icepack", "{build_name}.txt", "{build_name}.bin">> >>

\* Python list positions (0-based) the constructor edits.
SYNTH_IDX == 2
PNR_IDX == 1

\* template[k] of a Python list held as a 1-based sequence
At(k) == k + 1

-----------------------------------------------------------------------------
(* BaseSoC.__init__, lines 69-83 *)

\* s += t on a command line
IAdd_prepend(s, t) == t \o s
IAdd(s, t) == s \o t

\* " -relut -dffe_min_ce_use 4"
DensityFlags == <<"-relut", "-dffe_min_ce_use", "4">>

\* " --seed " + str(pnr_seed)
SeedFlags(pnr_seed) == <<"--seed", Str(pnr_seed)>>

\* if placer is not None: " --placer {}".format(placer)
PlacerFlags_always(placer) == <<"--placer", Str(placer)>>
PlacerFlags(placer) ==
    IF placer # None THEN <<"--placer", Str(placer)>> ELSE <<>>

\* The constructor runs to its end: the collaborators' calls of lines 47-67
\* returned, then lines 74-83 edit the two templates.
BaseSoC_init(placer, pnr_seed, use_pll) ==
    /\ yosys_template' =
         [yosys_template EXCEPT
            ![At(SYNTH_IDX)] = IAdd(@, DensityFlags)]
    /\ build_template' =
         [build_template EXCEPT
            ![At(PNR_IDX)] = IAdd(IAdd(@, SeedFlags(pnr_seed)), PlacerFlags(placer))]
    /\ constructions' = constructions + 1
    /\ soc' = [placer |-> placer, pnr_seed |-> pnr_seed, use_pll |-> use_pll]

\* A collaborator called in lines 47-67 raises: the templates are not reached.
BaseSoC_init_raises ==
    /\ pc \in {"platform", "soc"}
    /\ IF mode = "script" THEN constructions = 0
                          ELSE constructions < MaxConstructions
    /\ pc' = "raised"
    /\ reported' = "CompositionError"
    /\ UNCHANGED <<mode, argv, args, yosys_template, build_template,
                   constructions, soc, invocations>>

-----------------------------------------------------------------------------
(* main(), lines 85-105 *)

\* parse_args() rejects a --placer outside choices: it prints the error
\* and raises SystemExit(2).
ParseRejects(a) == a.placer # Absent /\ a.placer \notin PlacerChoices

ParsedArgs(a) ==
    [seed |-> IF a.seed = Absent THEN PyInt(DefaultSeed) ELSE PyStr(a.seed),
     placer |-> IF a.placer = Absent THEN None ELSE PyStr(a.placer),
     no_pll |-> a.no_pll]

ParseArgs_warns ==
    /\ mode = "script"
    /\ pc = "start"
    /\ IF ParseRejects(argv)
         THEN /\ reported' = "InvalidConfiguration"
              /\ pc' = "parsed"
              /\ args' = [ParsedArgs(argv) EXCEPT !.placer = None]
         ELSE /\ pc' = "parsed"
              /\ args' = ParsedArgs(argv)
              /\ UNCHANGED reported
    /\ UNCHANGED <<mode, argv, yosys_template, build_template,
                   constructions, soc, invocations>>

\* line 97
ParseArgs ==
    /\ mode = "script"
    /\ pc = "start"
    /\ IF ParseRejects(argv)
         THEN /\ reported' = "InvalidConfiguration"
              /\ pc' = "exit2"
              /\ UNCHANGED args
         ELSE /\ pc' = "parsed"
              /\ args' = ParsedArgs(argv)
              /\ UNCHANGED reported
    /\ UNCHANGED <<mode, argv, yosys_template, build_template,
                   constructions, soc, invocations>>

\* line 99: platform = Platform(); the platform carries the default templates
NewPlatform ==
    /\ pc = "parsed"
    /\ pc' = "platform"
    /\ UNCHANGED <<mode, argv, args, yosys_template, build_template,
                   constructions, soc, invocations, reported>>

\* line 100: soc = BaseSoC(platform, pnr_seed=args.seed, placer=args.placer,
\*                         use_pll=not args.no_pll)
Main_BaseSoC ==
    /\ mode = "script"
    /\ pc = "platform"
    /\ BaseSoC_init(args.placer, args.seed, ~args.no_pll)
    /\ pc' = "soc"
    /\ UNCHANGED <<mode, argv, args, invocations, reported>>

\* Client code of the module constructs a BaseSoC on a platform, possibly
\* on one that an earlier BaseSoC was constructed on.
Client_BaseSoC ==
    /\ mode = "import"
    /\ pc \in {"platform", "soc"}
    /\ constructions < MaxConstructions
    /\ \E placer \in PlacerArgs, pnr_seed \in SeedArgs, use_pll \in BOOLEAN :
          BaseSoC_init(placer, pnr_seed, use_pll)
    /\ pc' = "soc"
    /\ UNCHANGED <<mode, argv, args, invocations, reported>>

\* lines 101-103: builder = Builder(soc, ...)
NewBuilder ==
    /\ pc = "soc"
    /\ pc' = "builder"
    /\ UNCHANGED <<mode, argv, args, yosys_template, build_template,
                   constructions, soc, invocations, reported>>

\* line 104: vns = builder.build() runs the toolchain and returns, or raises
Build ==
    /\ pc = "builder"
    /\ invocations' = invocations + 1
    /\ \/ /\ pc' = "built"
          /\ UNCHANGED reported
       \/ /\ pc' = "raised"
          /\ reported' = "ToolchainInvocationFailed"
    /\ UNCHANGED <<mode, argv, args, yosys_template, build_template,
                   constructions, soc>>

\* line 105: soc.do_exit(vns)
DoExit ==
    /\ pc = "built"
    /\ pc' = "done"
    /\ UNCHANGED <<mode, argv, args, yosys_template, build_template,
                   constructions, soc, invocations, reported>>

-----------------------------------------------------------------------------

\* lines 107-108: run as a script, main() starts at parse_args(); imported,
\* the caller has a platform and no command line.
Init ==
    /\ mode \in {"script", "import"}
    /\ IF mode = "script"
         THEN /\ argv \in ArgvSet
              /\ pc = "start"
         ELSE /\ argv = [seed |-> Absent, placer |-> Absent, no_pll |-> FALSE]
              /\ pc = "platform"
    /\ args = NoArgs
    /\ yosys_template = DefaultYosysTemplate
    /\ build_template = DefaultBuildTemplate
    /\ constructions = 0
    /\ soc = NoSoc
    /\ invocations = 0
    /\ reported = "none"

Next ==
    \/ ParseArgs
    \/ NewPlatform
    \/ Main_BaseSoC
    \/ Client_BaseSoC
    \/ BaseSoC_init_raises
    \/ NewBuilder
    \/ Build
    \/ DoExit

Spec == Init /\ [][Next]_vars

-----------------------------------------------------------------------------
(* Helpers of the properties *)

IsPrefix(s, t) == Len(s) <= Len(t) /\ SubSeq(t, 1, Len(s)) = s

Count(w, s) == Cardinality({i \in 1..Len(s) : s[i] = w})

SynthLine == yosys_template[At(SYNTH_IDX)]
PnrLine == build_template[At(PNR_IDX)]

-----------------------------------------------------------------------------
(* Properties *)

ConfigurationErrors == {"InvalidConfiguration", "CompositionError"}

ConfigErrorBeforeToolchain ==
    reported \in ConfigurationErrors => invocations = 0

ConfigErrorReported ==
    /\ reported = "InvalidConfiguration"
    /\ argv.placer = "bogus"
    /\ pc = "exit2"

\* C9: overrides only append. Every template entry keeps, at every step, all
\* the tokens it had as a prefix of what it has next, no entry is added or
\* removed, and so each entry always starts with its default tokens.
DefaultsArePrefix ==
    /\ Len(yosys_template) = Len(DefaultYosysTemplate)
    /\ Len(build_template) = Len(DefaultBuildTemplate)
    /\ \A k \in 1..Len(DefaultYosysTemplate) :
          IsPrefix(DefaultYosysTemplate[k], yosys_template[k])
    /\ \A k \in 1..Len(DefaultBuildTemplate) :
          IsPrefix(DefaultBuildTemplate[k], build_template[k])

StepAppends ==
    /\ Len(yosys_template') = Len(yosys_template)
    /\ Len(build_template') = Len(build_template)
    /\ \A k \in 1..Len(yosys_template) :
          IsPrefix(yosys_template[k], yosys_template'[k])
    /\ \A k \in 1..Len(build_template) :
          IsPrefix(build_template[k], build_template'[k])

OverridesOnlyAppend == []DefaultsArePrefix /\ [][StepAppends]_vars

OverridesAppliedTwice ==
    /\ constructions = 2
    /\ Len(PnrLine) >= Len(DefaultBuildTemplate[At(PNR_IDX)]) + 6
    /\ Len(SynthLine) = Len(DefaultYosysTemplate[At(SYNTH_IDX)]) + 6

\* C10: after one construction the place-and-route line is its default, then
\* the seed flag and value ("0" when no seed was given), then the placer flag
\* and value exactly when a placer was supplied; the synthesis line is its
\* default followed by the density flags; every other entry is unchanged.
SeedGiven == IF mode = "script" THEN argv.seed # Absent ELSE soc.pnr_seed.kind = "str"
SeedWord ==
    IF mode = "script"
      THEN (IF argv.seed = Absent THEN "0" ELSE argv.seed)
      ELSE (IF soc.pnr_seed.kind = "str" THEN soc.pnr_seed.s
            ELSE IntToStr(soc.pnr_seed.i))
PlacerGiven == IF mode = "script" THEN argv.placer # Absent ELSE soc.placer # None
PlacerWord == IF mode = "script" THEN argv.placer ELSE soc.placer.s

OneConstructionShape ==
    constructions = 1 =>
      /\ build_template =
           [DefaultBuildTemplate EXCEPT
              ![2] = @ \o <<"--seed", SeedWord>>
                       \o (IF PlacerGiven THEN <<"--placer", PlacerWord>> ELSE <<>>)]
      /\ yosys_template =
           [DefaultYosysTemplate EXCEPT
              ![3] = @ \o <<"-relut", "-dffe_min_ce_use", "4">>]

OneConstructionDefaultSeedNoPlacer ==
    /\ constructions = 1
    /\ mode = "script"
    /\ argv.seed = Absent
    /\ argv.placer = Absent
    /\ PnrLine = DefaultBuildTemplate[2] \o <<"--seed", "0">>

====
